---- MODULE Spec2Model ----
(***************************************************************************)
(* A model of src/bot.py: the sqlite store (Database), the catalog         *)
(* (TrainingProgram) and the handlers and timer tasks of TrainingBot.      *)
(*                                                                         *)
(* Tables and dicts are functions whose DOMAIN is the set of keys present. *)
(* Handlers run one at a time (the Application of line 313 is built with   *)
(* the default, sequential update processing); the tasks that start_timer  *)
(* creates run between the handlers' await points.                         *)
(***************************************************************************)
EXTENDS Integers, Sequences, FiniteSets, TLC

VARIABLES users, progress, waiting, last,
          user_timers, active_timers, tasks, timer_history, starting,
          inbox, handling

nav_vars == <<users, progress, waiting, last>>
timer_vars == <<user_timers, active_timers, tasks, timer_history, starting>>
loop_vars == <<inbox, handling>>

vars == <<users, progress, waiting, last,
          user_timers, active_timers, tasks, timer_history, starting,
          inbox, handling>>

(***************************************************************************)
(* Bounds of the model.                                                    *)
(***************************************************************************)
NumUsers == 2
MaxWeek == 3
MaxIdx == 2
MaxDebt == 1
MaxRecords == 1
MaxPending == 1
MaxWeightWeek == 1
MaxTasks == 3
MaxSeconds == 3
MaxInbox == 2
MaxLoopTasks == 1

(***************************************************************************)
(* Program constants.                                                      *)
(***************************************************************************)
NumDays == 3

UserIds == 1..NumUsers
TokWeeks == 1..MaxWeek
TokDays == 1..NumDays
TokIdx == (0 - 1)..MaxIdx
\* the weeks of the tokens tried where weights are entered
WeightWeeks == 1..MaxWeightWeek

(***************************************************************************)
(* TrainingProgram: week -> day -> exercises (id, number of sets).         *)
(***************************************************************************)
Ex(id, name, nsets) == [id |-> id, name |-> name, nsets |-> nsets]

full_program ==
    (1 :> ( 1 :> <<Ex("1-1-1", "press-hang", 2), Ex("1-1-2", "bench-press", 2)>>
         @@ 2 :> <<Ex("1-2-1", "prayer", 2)>>
         @@ 3 :> <<>> ))
 @@ (2 :> ( 1 :> <<Ex("2-1-1", "squat", 3)>> ))

HasWeek(week_num) == week_num \in DOMAIN full_program

HasDay(week_num, day_num) ==
    /\ HasWeek(week_num)
    /\ day_num \in DOMAIN full_program[week_num]

\* a bounds check without its lower bound: a negative index is taken
HasExercise_NoLowerBound(week_num, day_num, exercise_index) ==
    /\ HasDay(week_num, day_num)
    /\ exercise_index < Len(full_program[week_num][day_num])

HasExercise(week_num, day_num, exercise_index) ==
    /\ HasDay(week_num, day_num)
    /\ 0 <= exercise_index
    /\ exercise_index < Len(full_program[week_num][day_num])

\* a lookup that takes the head of the list whatever the index
get_exercise_first(week_num, day_num, exercise_index) ==
    full_program[week_num][day_num][1]

\* the list is 0-based in the source; sequences are 1-based here
get_exercise(week_num, day_num, exercise_index) ==
    full_program[week_num][day_num][exercise_index + 1]

ExerciseIds ==
    {full_program[w][d][i].id :
        <<w, d, i>> \in {t \in TokWeeks \X TokDays \X (1..2) :
                            /\ HasDay(t[1], t[2])
                            /\ t[3] <= Len(full_program[t[1]][t[2]])}}

(***************************************************************************)
(* Text of a message, as a sequence of characters, and float(text.replace) *)
(***************************************************************************)
Digits == {"0", "1", "2", "3", "4", "5", "6", "7", "8", "9"}

DigitVal(c) ==
    CASE c = "0" -> 0 [] c = "1" -> 1 [] c = "2" -> 2 [] c = "3" -> 3
      [] c = "4" -> 4 [] c = "5" -> 5 [] c = "6" -> 6 [] c = "7" -> 7
      [] c = "8" -> 8 [] c = "9" -> 9

Texts ==
    { <<"6", "0", ".", "5">>, <<"6", "0", ",", "5">>, <<"a", "b", "c">>,
      <<",">>, <<"n", "a", "n">>,
      <<"P", "r", "o", "g", "r", "a", "m">>, <<"s", "t", "a", "t", "s">> }

\* str.lower(), on the letters of Texts
lower(text) ==
    [i \in 1..Len(text) |-> IF text[i] = "P" THEN "p" ELSE text[i]]

\* the words of lines 808 and 810, in Latin letters: one of each list
program_words == { <<"p", "r", "o", "g", "r", "a", "m">> }

progress_words == { <<"s", "t", "a", "t", "s">> }

\* a text handed to float() as it came
replace_comma_missing(text) == text

\* str.replace(',', '.')
replace_comma(text) ==
    [i \in 1..Len(text) |-> IF text[i] = "," THEN "." ELSE text[i]]

DotPositions(s) == {i \in 1..Len(s) : s[i] = "."}

\* digits with at most one point and at least one digit
is_decimal(s) ==
    /\ \A i \in 1..Len(s) : s[i] \in Digits \cup {"."}
    /\ Cardinality(DotPositions(s)) <= 1
    /\ \E i \in 1..Len(s) : s[i] \in Digits

NaN == <<0, 0>>

Infinity == <<1, 0>>

\* the words float() accepts beside numerals, and their values
special_floats ==
    (<<"n", "a", "n">> :> NaN) @@ (<<"i", "n", "f">> :> Infinity)

\* the texts float() does not raise ValueError for.  It also takes a sign,
\* an exponent, blanks around and underscores between digits, and the words
\* in any case: none of these is written with the characters of Texts.
is_float(s) == is_decimal(s) \/ s \in DOMAIN special_floats

RECURSIVE DigitsValue(_)
DigitsValue(s) ==
    IF Len(s) = 0 THEN 0
    ELSE 10 * DigitsValue(SubSeq(s, 1, Len(s) - 1)) + DigitVal(s[Len(s)])

RECURSIVE Pow10(_)
Pow10(k) == IF k = 0 THEN 1 ELSE 10 * Pow10(k - 1)

RECURSIVE Reduce(_, _)
Reduce(num, den) ==
    IF den > 1 /\ num % 10 = 0 THEN Reduce(num \div 10, den \div 10)
    ELSE <<num, den>>

\* the value of a float literal, as the fraction num/den in lowest power of 10
float_value(s) ==
    LET digs == SelectSeq(s, LAMBDA c : c \in Digits)
        frac == IF DotPositions(s) = {} THEN 0
                ELSE Len(s) - (CHOOSE i \in DotPositions(s) : TRUE)
    IN  IF s \in DOMAIN special_floats THEN special_floats[s]
        ELSE Reduce(DigitsValue(digs), Pow10(frac))

parse_weight(text) ==
    LET s == replace_comma(text)
    IN  IF is_float(s) THEN [ok |-> TRUE, value |-> float_value(s)]
        ELSE [ok |-> FALSE, value |-> <<>>]

NULL == <<>>

(***************************************************************************)
(* Database                                                                *)
(***************************************************************************)
NewUser ==
    [current_week |-> 1, current_day |-> 1,
     total_workouts |-> 0, total_exercises |-> 0]

\* INSERT OR IGNORE INTO users
create_user(us, user_id) ==
    IF user_id \in DOMAIN us THEN us ELSE us @@ (user_id :> NewUser)

\* UPDATE users SET current_week, current_day WHERE id
update_current_week_day(us, user_id, week, day) ==
    IF user_id \in DOMAIN us
    THEN [us EXCEPT ![user_id].current_week = week,
                    ![user_id].current_day = day]
    ELSE us

\* user_progress is the sequence of its rows in rowid order.  The positions
\* of the rows WHERE user_id = ? AND exercise_id = ?
matching(pr, user_id, exercise_id) ==
    {i \in 1..Len(pr) :
        pr[i].user_id = user_id /\ pr[i].exercise_id = exercise_id}

First(S) == CHOOSE i \in S : \A j \in S : i <= j

Last(S) == CHOOSE i \in S : \A j \in S : j <= i

\* SELECT exercise_id, completed, weight WHERE user_id, week, day, folded
\* into a dict row after row
get_user_progress(pr, user_id, week, day) ==
    LET hits(e) == {i \in matching(pr, user_id, e) :
                       pr[i].week = week /\ pr[i].day = day}
        ids == {e \in ExerciseIds : hits(e) # {}}
    IN  [e \in ids |-> [completed |-> (pr[Last(hits(e))].completed = 1),
                        weight |-> pr[Last(hits(e))].weight]]

BoolInt(b) == IF b THEN 1 ELSE 0

\* user_progress after update_exercise_status: UPDATE if the SELECT found a
\* row, INSERT if not
status_progress(pr, user_id, week, day, exercise_id, completed) ==
    LET hit == matching(pr, user_id, exercise_id)
    IN  IF hit # {}
        THEN [i \in 1..Len(pr) |->
                 IF i \in hit
                 THEN [pr[i] EXCEPT !.completed = BoolInt(completed),
                                    !.week = week, !.day = day]
                 ELSE pr[i]]
        ELSE Append(pr, [user_id |-> user_id, exercise_id |-> exercise_id,
                         week |-> week, day |-> day,
                         completed |-> BoolInt(completed),
                         weight |-> NULL])

\* the adjustment of total_exercises made by update_exercise_status;
\* existing is the row fetchone() returned, if any
status_delta(pr, user_id, exercise_id, completed) ==
    LET hit == matching(pr, user_id, exercise_id)
        existing == hit # {}
    IN  IF completed /\ ~existing THEN 1
        ELSE IF ~completed /\ existing /\ pr[First(hit)].completed = 1
             THEN 0 - 1
        ELSE 0

\* UPDATE users SET total_exercises = total_exercises + delta WHERE id
status_users(us, pr, user_id, exercise_id, completed) ==
    IF user_id \in DOMAIN us
    THEN [us EXCEPT ![user_id].total_exercises =
                        @ + status_delta(pr, user_id, exercise_id, completed)]
    ELSE us

\* an INSERT into a table without its UNIQUE(user_id, exercise_id)
save_exercise_weight_no_unique(pr, user_id, week, day, exercise_id, weight) ==
    Append(pr, [user_id |-> user_id, exercise_id |-> exercise_id,
                week |-> week, day |-> day, completed |-> 0,
                weight |-> IF weight = NaN THEN NULL ELSE weight])

\* INSERT OR REPLACE: the rows that conflict on UNIQUE(user_id, exercise_id)
\* go, the new row takes a new rowid, completed takes its default 0.
\* sqlite binds a NaN as NULL.
save_exercise_weight(pr, user_id, week, day, exercise_id, weight) ==
    LET row == [user_id |-> user_id, exercise_id |-> exercise_id,
                week |-> week, day |-> day, completed |-> 0,
                weight |-> IF weight = NaN THEN NULL ELSE weight]
        kept == SelectSeq(pr, LAMBDA r : ~(/\ r.user_id = user_id
                                           /\ r.exercise_id = exercise_id))
    IN  Append(kept, row)

\* a DELETE that lost its WHERE clause
delete_progress_all(pr, user_id) ==
    <<>>

\* DELETE FROM user_progress WHERE user_id
delete_progress(pr, user_id) ==
    SelectSeq(pr, LAMBDA r : r.user_id # user_id)

\* UPDATE users SET total_exercises = 0, total_workouts = 0 WHERE id
zero_counters(us, user_id) ==
    IF user_id \in DOMAIN us
    THEN [us EXCEPT ![user_id].total_exercises = 0,
                    ![user_id].total_workouts = 0]
    ELSE us

\* what the handler that ran last was and what it answered
Response(op, render) == [op |-> op, render |-> render]

ErrorRenders == {"week_not_found", "day_not_found", "exercise_not_found",
                 "unknown_button"}
(***************************************************************************)
(* Initial state: empty tables, no pending input, no timers.               *)
(***************************************************************************)
Empty == [x \in {} |-> 0]

Init ==
    /\ users = Empty
    /\ progress = <<>>
    /\ waiting = Empty
    /\ last = Response("none", "none")
    /\ user_timers = Empty
    /\ active_timers = Empty
    /\ tasks = <<>>
    /\ timer_history = <<>>
    /\ starting = <<>>
    /\ inbox = <<>>
    /\ handling = <<>>

\* updates are handled one at a time (Application.builder() leaves
\* concurrent_updates off): no handler is suspended inside start_timer or at
\* an await of the toggle branch
HandlerFree == starting = <<>> /\ handling = <<>>

\* the bound on the rows of user_progress
RoomFor(user_id, exercise_id) ==
    \/ matching(progress, user_id, exercise_id) # {}
    \/ Len(progress) < MaxRecords

\* the bound on the users with a pending weight entry
PendingRoom(user_id) ==
    \/ user_id \in DOMAIN waiting
    \/ Cardinality(DOMAIN waiting) < MaxPending

\* the bound on how far below zero total_exercises goes
DebtRoom(user_id) ==
    user_id \in DOMAIN users => users[user_id].total_exercises > 0 - MaxDebt

(***************************************************************************)
(* Handlers of TrainingBot                                                 *)
(***************************************************************************)
start_command(u) ==
    /\ HandlerFree
    /\ users' = create_user(users, u)
    /\ last' = Response("start", "welcome")
    /\ UNCHANGED <<progress, waiting>>
    /\ UNCHANGED <<timer_vars, loop_vars>>

\* button week_<w>: show_day_selection
SelectWeek(u, w) ==
    /\ HandlerFree
    /\ last' = Response("week", IF HasWeek(w) THEN "day_selection" ELSE "week_not_found")
    /\ UNCHANGED <<users, progress, waiting>>
    /\ UNCHANGED <<timer_vars, loop_vars>>

\* a show_exercise_list that stores the position before it looks the day up
list_users_unchecked(us, u, week, day) ==
    update_current_week_day(us, u, week, day)

\* show_exercise_list: the users table it leaves and what it renders
list_users(us, u, week, day) ==
    IF HasDay(week, day) THEN update_current_week_day(us, u, week, day) ELSE us

list_render(week, day) ==
    IF HasDay(week, day) THEN "exercise_list" ELSE "day_not_found"

\* button day_<w>_<d>
SelectDay(u, w, d) ==
    /\ HandlerFree
    /\ users' = list_users(users, u, w, d)
    /\ last' = Response("day", list_render(w, d))
    /\ UNCHANGED <<progress, waiting>>
    /\ UNCHANGED <<timer_vars, loop_vars>>

\* show_exercise_detail with a callback query
detail_render(week, day, exercise_index) ==
    IF HasExercise(week, day, exercise_index) THEN "exercise_detail"
    ELSE "exercise_not_found"

\* button exercise_<w>_<d>_<idx>
SelectExercise(u, w, d, idx) ==
    /\ HandlerFree
    /\ last' = Response("exercise", detail_render(w, d, idx))
    /\ UNCHANGED <<users, progress, waiting>>
    /\ UNCHANGED <<timer_vars, loop_vars>>

\* the status the toggle handler asks for: not the flag read at (week, day)
new_status(pr, u, exercise_id, week, day) ==
    LET current_progress == get_user_progress(pr, u, week, day)
    IN  ~(IF exercise_id \in DOMAIN current_progress
          THEN current_progress[exercise_id].completed ELSE FALSE)

\* lines 711-713: user_progress after the toggle handler
toggle_progress(pr, u, exercise_id, week, day) ==
    status_progress(pr, u, week, day, exercise_id,
                    new_status(pr, u, exercise_id, week, day))

\* lines 711-715: users after the toggle handler and its show_exercise_list
toggle_users(us, pr, u, exercise_id, week, day) ==
    list_users(status_users(us, pr, u, exercise_id,
                            new_status(pr, u, exercise_id, week, day)),
               u, week, day)

\* button toggle_complete_<id>_<w>_<d>
ToggleCompletion(u, exercise_id, w, d) ==
    /\ HandlerFree
    /\ RoomFor(u, exercise_id)
    /\ DebtRoom(u)
    /\ progress' = toggle_progress(progress, u, exercise_id, w, d)
    /\ users' = toggle_users(users, progress, u, exercise_id, w, d)
    /\ last' = Response("toggle", list_render(w, d))
    /\ UNCHANGED waiting
    /\ UNCHANGED <<timer_vars, loop_vars>>

\* a set_weight_ branch that awaits the weight before it looks the exercise up
BeginWeightEntry_Unchecked(u, w, d, idx) ==
    /\ HandlerFree
    /\ PendingRoom(u)
    /\ waiting' = [x \in DOMAIN waiting \cup {u} |->
                      IF x = u
                      THEN [week |-> w, day |-> d,
                            exercise_id |-> IF HasExercise(w, d, idx)
                                            THEN get_exercise(w, d, idx).id
                                            ELSE "none"]
                      ELSE waiting[x]]
    /\ last' = Response("set_weight",
                        IF HasExercise(w, d, idx) THEN "weight_prompt"
                        ELSE "exercise_not_found")
    /\ UNCHANGED <<users, progress>>
    /\ UNCHANGED <<timer_vars, loop_vars>>

\* button set_weight_<w>_<d>_<idx>_<set>; the set number only enters the text
BeginWeightEntry(u, w, d, idx) ==
    /\ HandlerFree
    /\ IF HasExercise(w, d, idx)
       THEN /\ PendingRoom(u)
            /\ waiting' = [x \in DOMAIN waiting \cup {u} |->
                              IF x = u
                              THEN [week |-> w, day |-> d,
                                    exercise_id |-> get_exercise(w, d, idx).id]
                              ELSE waiting[x]]
            /\ last' = Response("set_weight", "weight_prompt")
       ELSE /\ waiting' = waiting
            /\ last' = Response("set_weight", "exercise_not_found")
    /\ UNCHANGED <<users, progress>>
    /\ UNCHANGED <<timer_vars, loop_vars>>

\* message_handler while waiting_for_weight is set.  After a parsed weight is
\* saved, show_exercise_detail reads update.callback_query, which a text
\* message does not have: the handler ends in an AttributeError.
SubmitWeight(u, text) ==
    /\ HandlerFree
    /\ u \in DOMAIN waiting
    /\ LET weight_info == waiting[u]
           parsed == parse_weight(text)
       IN  IF parsed.ok
           THEN /\ RoomFor(u, weight_info.exercise_id)
                /\ progress' = save_exercise_weight(progress, u,
                                   weight_info.week, weight_info.day,
                                   weight_info.exercise_id, parsed.value)
                /\ waiting' = [x \in DOMAIN waiting \ {u} |-> waiting[x]]
                /\ last' = Response("weight", "fault")
           ELSE /\ last' = Response("weight", "invalid_weight")
                /\ UNCHANGED <<progress, waiting>>
    /\ UNCHANGED users
    /\ UNCHANGED <<timer_vars, loop_vars>>

\* what message_handler answers a text with when no weight is awaited.
\* program_command passes the id of the user's own message to
\* show_week_selection, which asks to edit it: the answer is the transport's.
plain_renders(us, u, text) ==
    IF lower(text) \in program_words THEN {"week_selection", "fault"}
    ELSE IF lower(text) \in progress_words
    THEN IF u \in DOMAIN us THEN {"progress"} ELSE {"start_first"}
    ELSE {"hint"}

\* a message_handler that registers whoever writes to it
PlainText_Registers(u, text) ==
    /\ HandlerFree
    /\ u \notin DOMAIN waiting
    /\ \E r \in plain_renders(users, u, text) : last' = Response("text", r)
    /\ users' = create_user(users, u)
    /\ UNCHANGED <<progress, waiting>>
    /\ UNCHANGED <<timer_vars, loop_vars>>

\* message_handler with no waiting_for_weight (lines 805-813)
PlainText(u, text) ==
    /\ HandlerFree
    /\ u \notin DOMAIN waiting
    /\ \E r \in plain_renders(users, u, text) : last' = Response("text", r)
    /\ UNCHANGED <<users, progress, waiting>>
    /\ UNCHANGED <<timer_vars, loop_vars>>

\* button reset_confirm
ResetProgress(u) ==
    /\ HandlerFree
    /\ progress' = delete_progress(progress, u)
    /\ users' = zero_counters(users, u)
    /\ last' = Response("reset", "reset_done")
    /\ UNCHANGED waiting
    /\ UNCHANGED <<timer_vars, loop_vars>>

\* the toggle tokens show_exercise_detail puts on its buttons (lines 512-514):
\* an exercise with the week and day it is listed under
ToggleButtons ==
    {<<full_program[t[1]][t[2]][t[3]].id, t[1], t[2]>> :
        t \in {t \in TokWeeks \X TokDays \X (1..2) :
                  /\ HasDay(t[1], t[2])
                  /\ t[3] <= Len(full_program[t[1]][t[2]])}}

\* users who have sent /start press the buttons the bot has shown
NextProgress ==
    \/ \E u \in UserIds : start_command(u)
    \/ \E u \in DOMAIN users, w \in TokWeeks, d \in TokDays : SelectDay(u, w, d)
    \/ \E u \in DOMAIN users, b \in ToggleButtons :
          ToggleCompletion(u, b[1], b[2], b[3])
    \/ \E u \in DOMAIN users : ResetProgress(u)

SpecProgress == Init /\ [][NextProgress]_vars

\* any user, registered or not, sends any token or text of the bounded sets
NextWeight ==
    \/ \E u \in UserIds : start_command(u)
    \/ \E u \in UserIds, e \in ExerciseIds, w \in WeightWeeks, d \in TokDays :
          ToggleCompletion(u, e, w, d)
    \/ \E u \in UserIds, w \in WeightWeeks, d \in TokDays, i \in TokIdx :
          BeginWeightEntry(u, w, d, i)
    \/ \E u \in UserIds, t \in Texts : SubmitWeight(u, t)
    \/ \E u \in UserIds, t \in Texts : PlainText(u, t)
    \/ \E u \in UserIds : ResetProgress(u)

SpecWeight == Init /\ [][NextWeight]_vars

NextMenu ==
    \/ \E u \in UserIds : start_command(u)
    \/ \E u \in UserIds, w \in TokWeeks : SelectWeek(u, w)
    \/ \E u \in UserIds, w \in TokWeeks, d \in TokDays : SelectDay(u, w, d)
    \/ \E u \in UserIds, w \in TokWeeks, d \in TokDays, i \in TokIdx :
          SelectExercise(u, w, d, i)

SpecMenu == Init /\ [][NextMenu]_vars


(***************************************************************************)
(* Timers: start_timer and the tasks running run_timer.                    *)
(*                                                                         *)
(* A task is a record: chat, initial (initial_seconds), seconds (the local *)
(* countdown) and pc, the await it is suspended at:                        *)
(*   created    scheduled by create_task, not yet run                      *)
(*   sleeping   await asyncio.sleep(1), line 590                           *)
(*   editing    await edit_message_text, line 594                          *)
(*   notifying  await send_message, line 606                               *)
(*   done, failed (an exception left run_timer), cancelled                 *)
(* Its other fields record what it did: ticks, the edits it asked for      *)
(* (message and seconds shown); notified, whether it asked for the         *)
(* completion message; failed_at, the seconds left when an edit failed     *)
(* (-1: none failed); superseded, whether a later start_timer for the same *)
(* chat found it registered and still running.                             *)
(*                                                                         *)
(* Task.cancel() makes the task's next resumption raise CancelledError,    *)
(* which except Exception (line 600) does not catch: a cancelled task runs *)
(* no more of run_timer, so cancel is modelled as ending it at once.       *)
(***************************************************************************)
Running == {"created", "sleeping", "editing", "notifying"}

RestLabel == "rest"

\* button timer_<digits>: isdigit() lets a zero through
TimerSeconds == 0..MaxSeconds

NewTask(chat_id, seconds) ==
    [chat |-> chat_id, initial |-> seconds, seconds |-> seconds,
     pc |-> "created", ticks |-> <<>>, notified |-> FALSE,
     failed_at |-> 0 - 1, superseded |-> FALSE]

\* a start_timer that leaves the old task running
cancel_old_timer_missing(ts, active, chat_id) ==
    IF chat_id \in DOMAIN active /\ ts[active[chat_id]].pc \in Running
    THEN [ts EXCEPT ![active[chat_id]].superseded = TRUE]
    ELSE ts

\* lines 567-568: cancel the task registered for the chat, if any
cancel_old_timer(ts, active, chat_id) ==
    IF chat_id \in DOMAIN active /\ ts[active[chat_id]].pc \in Running
    THEN [ts EXCEPT ![active[chat_id]].pc = "cancelled",
                    ![active[chat_id]].superseded = TRUE]
    ELSE ts

\* lines 564-571, from button timer_<digits>: up to await send_message
StartTimerBegin(u, seconds) ==
    /\ HandlerFree
    /\ Len(tasks) < MaxTasks
    /\ tasks' = cancel_old_timer(tasks, active_timers, u)
    /\ starting' = <<[chat |-> u, seconds |-> seconds, name |-> RestLabel]>>
    /\ UNCHANGED <<user_timers, active_timers, timer_history>>
    /\ UNCHANGED <<nav_vars, loop_vars>>

Put(f, k, v) == [x \in DOMAIN f \cup {k} |-> IF x = k THEN v ELSE f[x]]

\* a deletion that empties the dict
Remove_Everything(f, k) == [x \in {} |-> f[x]]

Remove(f, k) == [x \in DOMAIN f \ {k} |-> f[x]]

\* lines 576-584 and 739: the message was sent; register the session and
\* create the task.  The message id is new with every message sent.
StartTimerSent ==
    /\ starting # <<>>
    /\ LET call == starting[1]
           task == Len(tasks) + 1
       IN  /\ user_timers' = Put(user_timers, call.chat,
                                 [seconds |-> call.seconds,
                                  message_id |-> task,
                                  exercise_name |-> call.name])
           /\ tasks' = Append(tasks, NewTask(call.chat, call.seconds))
           /\ active_timers' = Put(active_timers, call.chat, task)
    /\ starting' = <<>>
    /\ last' = Response("timer", "timer_started")
    /\ UNCHANGED timer_history
    /\ UNCHANGED <<users, progress, waiting>>
    /\ UNCHANGED loop_vars

\* line 571 raises: start_timer and the handler end there
StartTimerFailed ==
    /\ starting # <<>>
    /\ starting' = <<>>
    /\ last' = Response("timer", "fault")
    /\ UNCHANGED <<user_timers, active_timers, tasks, timer_history>>
    /\ UNCHANGED <<users, progress, waiting>>
    /\ UNCHANGED loop_vars

\* line 592: the check that the session was not restarted
SameSession(timers, chat_id, initial_seconds) ==
    /\ chat_id \in DOMAIN timers
    /\ timers[chat_id].seconds = initial_seconds

\* the head of the while loop (line 589), or the call of line 606 after it
LoopHead(task) ==
    IF task.seconds > 0 THEN [task EXCEPT !.pc = "sleeping"]
    ELSE [task EXCEPT !.pc = "notifying", !.notified = TRUE]

\* the task runs for the first time
TaskStart(t) ==
    /\ tasks[t].pc = "created"
    /\ tasks' = [tasks EXCEPT ![t] = LoopHead(tasks[t])]
    /\ UNCHANGED <<user_timers, active_timers, timer_history, starting>>
    /\ UNCHANGED <<nav_vars, loop_vars>>

\* lines 591-599: a second has passed
TaskTick(t) ==
    /\ tasks[t].pc = "sleeping"
    /\ LET task == [tasks[t] EXCEPT !.seconds = @ - 1]
       IN  IF SameSession(user_timers, task.chat, task.initial)
           THEN tasks' = [tasks EXCEPT ![t] =
                    [task EXCEPT !.pc = "editing",
                                 !.ticks = Append(@,
                                    [message_id |->
                                        user_timers[task.chat].message_id,
                                     shown |-> task.seconds])]]
           ELSE tasks' = [tasks EXCEPT ![t] = LoopHead(task)]
    /\ UNCHANGED <<user_timers, active_timers, timer_history, starting>>
    /\ UNCHANGED <<nav_vars, loop_vars>>

\* the edit was made: back to the head of the loop
TaskEdited(t) ==
    /\ tasks[t].pc = "editing"
    /\ tasks' = [tasks EXCEPT ![t] = LoopHead(tasks[t])]
    /\ UNCHANGED <<user_timers, active_timers, timer_history, starting>>
    /\ UNCHANGED <<nav_vars, loop_vars>>

\* lines 600-606: the edit raised; break, then the call of line 606
TaskEditFailed(t) ==
    /\ tasks[t].pc = "editing"
    /\ tasks' = [tasks EXCEPT ![t] =
                    [tasks[t] EXCEPT !.pc = "notifying", !.notified = TRUE,
                                     !.failed_at = tasks[t].seconds]]
    /\ UNCHANGED <<user_timers, active_timers, timer_history, starting>>
    /\ UNCHANGED <<nav_vars, loop_vars>>

\* a duration logged from the countdown, not from its start
logged_duration_remaining(task) == task.seconds

\* line 614: the duration passed to log_timer_usage
logged_duration(task) == task.initial

\* lines 613-620: the completion message was sent; log and clean up.
\* by is the task that wrote the row (not a column of timer_history).
TaskNotified(t) ==
    /\ tasks[t].pc = "notifying"
    /\ LET chat_id == tasks[t].chat
       IN  /\ timer_history' =
                 IF chat_id \in DOMAIN user_timers
                 THEN Append(timer_history,
                        [user_id |-> chat_id,
                         exercise_name |-> user_timers[chat_id].exercise_name,
                         duration_seconds |-> logged_duration(tasks[t]),
                         by |-> t])
                 ELSE timer_history
           /\ user_timers' = Remove(user_timers, chat_id)
           /\ active_timers' = Remove(active_timers, chat_id)
    /\ tasks' = [tasks EXCEPT ![t].pc = "done"]
    /\ UNCHANGED starting
    /\ UNCHANGED <<nav_vars, loop_vars>>

\* line 606 raises: the exception leaves run_timer before the clean-up
TaskNotifyFailed(t) ==
    /\ tasks[t].pc = "notifying"
    /\ tasks' = [tasks EXCEPT ![t].pc = "failed"]
    /\ UNCHANGED <<user_timers, active_timers, timer_history, starting>>
    /\ UNCHANGED <<nav_vars, loop_vars>>

TaskIds == 1..Len(tasks)

NextTimer ==
    \/ \E u \in UserIds, s \in TimerSeconds : StartTimerBegin(u, s)
    \/ StartTimerSent
    \/ StartTimerFailed
    \/ \E t \in TaskIds : TaskStart(t)
    \/ \E t \in TaskIds : TaskTick(t)
    \/ \E t \in TaskIds : TaskEdited(t)
    \/ \E t \in TaskIds : TaskEditFailed(t)
    \/ \E t \in TaskIds : TaskNotified(t)
    \/ \E t \in TaskIds : TaskNotifyFailed(t)

SpecTimer == Init /\ [][NextTimer]_vars

\* one step of task t: the event loop resumes it at the await it is at
TaskStep(t) ==
    /\ t \in TaskIds
    /\ \/ TaskStart(t)
       \/ TaskTick(t)
       \/ TaskEdited(t)
       \/ TaskEditFailed(t)
       \/ TaskNotified(t)
       \/ TaskNotifyFailed(t)

\* The event loop runs every task that is ready: a created task is run, a
\* sleep of one second ends, and a call of the Bot API returns or raises.
\* Whether a call returns or raises is not a matter of fairness.
TimerFairness ==
    /\ WF_vars(StartTimerSent \/ StartTimerFailed)
    /\ \A t \in 1..MaxTasks : WF_vars(TaskStep(t))

SpecTimerFair == SpecTimer /\ TimerFairness

(***************************************************************************)
(* The toggle branch of button_handler on the event loop.  inbox is the    *)
(* queue of updates that have arrived and are not yet handled; handling    *)
(* holds the toggle handler that is suspended at an await, if any.  A      *)
(* coroutine that is resumed runs, statement after statement, until its    *)
(* next await: only there can a task or the arrival of an update come in   *)
(* between.  pc of a handler:                                              *)
(*   answer   await query.answer(), line 689                               *)
(*   read     new_status is computed (lines 711-712), line 713 is next     *)
(*   render   await query.edit_message_text of show_exercise_list          *)
(*   done     the handler has returned                                     *)
(***************************************************************************)
NewHandler(update) ==
    [user |-> update.user, exercise_id |-> update.exercise_id,
     week |-> update.week, day |-> update.day,
     pc |-> "answer", status |-> FALSE]

\* a toggle branch that awaits between reading the flag and writing it
toggle_awaits_between(pc) == pc \in {"answer", "read", "render"}

\* the statements of the toggle branch that are awaits
toggle_awaits(pc) == pc \in {"answer", "render"}

\* one statement of the handler h on the store c = [h, users, progress]
toggle_statement(c) ==
    LET h == c.h
    IN  IF h.pc = "answer"
        THEN [c EXCEPT !.h.pc = "read",
                       !.h.status = new_status(c.progress, h.user,
                                               h.exercise_id, h.week, h.day)]
        ELSE IF h.pc = "read"
        THEN [h |-> [h EXCEPT !.pc = "render"],
              progress |-> status_progress(c.progress, h.user, h.week, h.day,
                                           h.exercise_id, h.status),
              users |-> list_users(status_users(c.users, c.progress, h.user,
                                                h.exercise_id, h.status),
                                   h.user, h.week, h.day)]
        ELSE [c EXCEPT !.h.pc = "done"]

\* the coroutine runs on until it is at an await or has returned
RECURSIVE run_to_await(_)
run_to_await(c) ==
    IF c.h.pc = "done" \/ toggle_awaits(c.h.pc) THEN c
    ELSE run_to_await(toggle_statement(c))

\* the bound on the rows of user_progress, over the toggles still to be
\* handled
LoopKeys ==
    {<<progress[i].user_id, progress[i].exercise_id>> : i \in 1..Len(progress)}
    \cup {<<inbox[i].user, inbox[i].exercise_id>> : i \in 1..Len(inbox)}
    \cup {<<handling[i].user, handling[i].exercise_id>> :
             i \in 1..Len(handling)}

\* the press of toggle_complete_<id>_<w>_<d> reaches the update queue
ToggleArrives(u, exercise_id, w, d) ==
    /\ Len(inbox) < MaxInbox
    /\ Cardinality(LoopKeys \cup {<<u, exercise_id>>}) <= MaxRecords
    /\ inbox' = Append(inbox, [user |-> u, exercise_id |-> exercise_id,
                               week |-> w, day |-> d])
    /\ UNCHANGED handling
    /\ UNCHANGED <<nav_vars, timer_vars>>

\* the next update is handed to button_handler, which runs to line 689
ToggleDispatch ==
    /\ HandlerFree
    /\ inbox # <<>>
    /\ DebtRoom(inbox[1].user)
    /\ handling' = <<NewHandler(inbox[1])>>
    /\ inbox' = Tail(inbox)
    /\ UNCHANGED <<nav_vars, timer_vars>>

\* the await the handler is suspended at returns
ToggleResume ==
    /\ handling # <<>>
    /\ LET c == run_to_await(toggle_statement(
                    [h |-> handling[1], users |-> users,
                     progress |-> progress]))
       IN  /\ users' = c.users
           /\ progress' = c.progress
           /\ handling' = IF c.h.pc = "done" THEN <<>> ELSE <<c.h>>
           /\ last' = IF c.h.pc = "done"
                      THEN Response("toggle", list_render(c.h.week, c.h.day))
                      ELSE last
    /\ UNCHANGED <<waiting, inbox>>
    /\ UNCHANGED timer_vars

\* a timer is started while few enough tasks exist
LoopTimerStart ==
    /\ Len(tasks) < MaxLoopTasks
    /\ \E u \in UserIds, s \in TimerSeconds : StartTimerBegin(u, s)

\* toggles of the shown buttons, queued and handled, with a timer running
NextLoop ==
    \/ \E u \in UserIds : start_command(u)
    \/ \E u \in UserIds, b \in ToggleButtons :
          ToggleArrives(u, b[1], b[2], b[3])
    \/ ToggleDispatch
    \/ ToggleResume
    \/ LoopTimerStart
    \/ StartTimerSent
    \/ StartTimerFailed
    \/ \E t \in TaskIds : TaskStart(t)
    \/ \E t \in TaskIds : TaskTick(t)
    \/ \E t \in TaskIds : TaskEdited(t)
    \/ \E t \in TaskIds : TaskEditFailed(t)
    \/ \E t \in TaskIds : TaskNotified(t)
    \/ \E t \in TaskIds : TaskNotifyFailed(t)

SpecLoop == Init /\ [][NextLoop]_vars

(***************************************************************************)
(* button_handler: the dispatch on query.data.  A token is the sequence of *)
(* its fields, the parts of data.split("_"); parts[k] is data[k + 1].      *)
(***************************************************************************)
\* the numerals among the fields of Tokens and what int() makes of them
Numerals ==
    ("0" :> 0) @@ ("1" :> 1) @@ ("2" :> 2) @@ ("3" :> 3) @@ ("-1" :> (0 - 1))

\* int(field) does not raise ValueError
is_int(field) == field \in DOMAIN Numerals

\* str.isdigit()
isdigit(field) == field \in DOMAIN Numerals /\ Numerals[field] >= 0

\* data.startswith(prefix + "_"), prefix given by its fields
startswith(data, prefix) ==
    /\ Len(data) > Len(prefix)
    /\ SubSeq(data, 1, Len(prefix)) = prefix

\* int(parts[k]) for every k of ks raises neither IndexError nor ValueError
ints_at(data, ks) == \A k \in ks : k + 1 <= Len(data) /\ is_int(data[k + 1])

int_at(data, k) == Numerals[data[k + 1]]

Tokens ==
    { <<"week", "1">>, <<"week", "x">>,
      <<"day", "1", "2">>, <<"day", "1">>,
      <<"exercise", "1", "1", "0">>, <<"exercise", "1", "1", "x">>,
      <<"toggle", "complete", "1-1-1", "1", "1">>,
      <<"set", "weight", "1", "1", "0", "0">>,
      <<"set", "weight", "1", "2", "0", "1">>,
      <<"set", "weight", "1", "1", "2", "0">>,
      <<"set", "weight", "1", "1", "1", "0">>,
      <<"set", "weight", "1", "1", "-1", "0">>,
      <<"set", "weight", "2", "2", "0", "0">>,
      <<"set", "weight", "3", "1", "0", "0">>,
      <<"timer", "main">>, <<"timer", "exercise", "squat">>,
      <<"timer", "after", "exercise">>,
      <<"back", "to", "weeks">>, <<"back", "to", "days", "1">>,
      <<"back", "to", "exercises", "1", "2">>, <<"back", "to", "menu">>,
      <<"program", "main">>, <<"main", "menu">>, <<"current", "training">>,
      <<"help", "main">>, <<"stats", "main">>, <<"reset", "confirm">>,
      <<"workout", "history">> }

\* a handler that touches no table: what it answers with
Answer(op, render) ==
    /\ HandlerFree
    /\ last' = Response(op, render)
    /\ UNCHANGED <<users, progress, waiting>>
    /\ UNCHANGED <<timer_vars, loop_vars>>

\* back_to_weeks, program_main: show_week_selection
BackToWeeks(u) == Answer("back", "week_selection")

\* back_to_days_<w>: show_day_selection
BackToDays(u, w) ==
    Answer("back", IF HasWeek(w) THEN "day_selection" ELSE "week_not_found")

\* back_to_exercises_<w>_<d>: show_exercise_list
BackToExercises(u, w, d) ==
    /\ HandlerFree
    /\ users' = list_users(users, u, w, d)
    /\ last' = Response("back", list_render(w, d))
    /\ UNCHANGED <<progress, waiting>>
    /\ UNCHANGED <<timer_vars, loop_vars>>

\* current_training: the list of the stored position, or the week selection
CurrentTraining(u) ==
    IF u \in DOMAIN users
    THEN /\ HandlerFree
         /\ users' = list_users(users, u, users[u].current_week,
                                users[u].current_day)
         /\ last' = Response("current",
                             list_render(users[u].current_week,
                                         users[u].current_day))
         /\ UNCHANGED <<progress, waiting>>
         /\ UNCHANGED <<timer_vars, loop_vars>>
    ELSE Answer("current", "week_selection")

\* the branches under data.startswith("back_to_"), lines 746-754
back_to(u, data) ==
    IF data = <<"back", "to", "weeks">> THEN BackToWeeks(u)
    ELSE IF startswith(data, <<"back", "to", "days">>)
    THEN IF ints_at(data, {3}) THEN BackToDays(u, int_at(data, 3))
         ELSE Answer("button", "fault")
    ELSE IF startswith(data, <<"back", "to", "exercises">>)
    THEN IF ints_at(data, {3, 4})
         THEN BackToExercises(u, int_at(data, 3), int_at(data, 4))
         ELSE Answer("button", "fault")
    ELSE Answer("button", "none")

\* the branches under data.startswith("timer_"), lines 730-739.
\* timer_command answers through update.message, which the update of a
\* button does not have.
timer_button(u, data) ==
    IF data = <<"timer", "after", "exercise">> THEN Answer("button", "fault")
    ELSE IF isdigit(data[2]) THEN StartTimerBegin(u, int_at(data, 1))
    ELSE Answer("button", "none")

\* lines 743-779: the tokens compared whole.  help_command and stats_command
\* answer through update.message, which the update of a button does not have.
whole_token(u, data) ==
    IF data = <<"program", "main">> THEN Answer("program", "week_selection")
    ELSE IF startswith(data, <<"back", "to">>) THEN back_to(u, data)
    ELSE IF data = <<"main", "menu">> THEN Answer("menu", "main_menu")
    ELSE IF data = <<"current", "training">> THEN CurrentTraining(u)
    ELSE IF data \in {<<"help", "main">>, <<"stats", "main">>}
    THEN Answer("button", "fault")
    ELSE IF data = <<"reset", "confirm">> THEN ResetProgress(u)
    ELSE Answer("button", "unknown_button")

\* button_handler, lines 686-779.  The branch timer_exercise_ (line 740)
\* comes after timer_ and is taken by no token.
ButtonPress(u, data) ==
    IF startswith(data, <<"week">>)
    THEN IF ints_at(data, {1}) THEN SelectWeek(u, int_at(data, 1))
         ELSE Answer("button", "fault")
    ELSE IF startswith(data, <<"day">>)
    THEN IF ints_at(data, {1, 2})
         THEN SelectDay(u, int_at(data, 1), int_at(data, 2))
         ELSE Answer("button", "fault")
    ELSE IF startswith(data, <<"exercise">>)
    THEN IF ints_at(data, {1, 2, 3})
         THEN SelectExercise(u, int_at(data, 1), int_at(data, 2),
                             int_at(data, 3))
         ELSE Answer("button", "fault")
    ELSE IF startswith(data, <<"toggle", "complete">>)
    THEN IF ints_at(data, {3, 4})
         THEN ToggleCompletion(u, data[3], int_at(data, 3), int_at(data, 4))
         ELSE Answer("button", "fault")
    ELSE IF startswith(data, <<"set", "weight">>)
    THEN IF ints_at(data, {2, 3, 4, 5})
         THEN BeginWeightEntry(u, int_at(data, 2), int_at(data, 3),
                               int_at(data, 4))
         ELSE Answer("button", "fault")
    ELSE IF startswith(data, <<"timer">>) THEN timer_button(u, data)
    ELSE whole_token(u, data)

\* the buttons of Tokens, pressed by any user, registered or not
NextButtons ==
    \/ \E u \in UserIds : start_command(u)
    \/ \E u \in UserIds, data \in Tokens : ButtonPress(u, data)

SpecButtons == Init /\ [][NextButtons]_vars

\* every handler and every task step, over all the bounded inputs
Next ==
    NextProgress \/ NextWeight \/ NextMenu \/ NextTimer \/ NextButtons
    \/ NextLoop

Spec == Init /\ [][Next]_vars

(***************************************************************************)
(* Claims about the store and the navigation handlers                      *)
(***************************************************************************)
CompletedCount(pr, u) ==
    Cardinality({i \in 1..Len(pr) :
                    pr[i].user_id = u /\ pr[i].completed = 1})

\* C1: for every user with a users row, after any sequence of toggles and
\* resets, total_exercises equals the number of that user's user_progress
\* rows with completed = 1.
C1_CounterEqualsCompleted ==
    \A u \in DOMAIN users :
        users[u].total_exercises = CompletedCount(progress, u)

Flag(pr, u, e) ==
    IF \E i \in 1..Len(pr) : pr[i].user_id = u /\ pr[i].exercise_id = e
    THEN (CHOOSE r \in {pr[i] : i \in 1..Len(pr)} :
             r.user_id = u /\ r.exercise_id = e).completed
    ELSE 0

\* C2: from every reachable state, two consecutive toggles of the same
\* (user, exercise), and so every even number of them, leave the completed
\* flag (0 for a missing row) and the user's total_exercises as they were.
C2_EvenTogglesRestore ==
    \A u \in DOMAIN users, b \in ToggleButtons :
        LET e == b[1]
            w == b[2]
            d == b[3]
            pr1 == toggle_progress(progress, u, e, w, d)
            us1 == toggle_users(users, progress, u, e, w, d)
            pr2 == toggle_progress(pr1, u, e, w, d)
            us2 == toggle_users(us1, pr1, u, e, w, d)
        IN  /\ Flag(pr2, u, e) = Flag(progress, u, e)
            /\ us2[u].total_exercises = users[u].total_exercises

RowsOf(pr, u) == {pr[i] : i \in {j \in 1..Len(pr) : pr[j].user_id = u}}

\* C8: a reset by user u leaves get_user_progress(u, w, d) empty for every
\* (w, d), leaves u's total_exercises and total_workouts 0 and u's
\* current_week and current_day as they were (when u has a users row), and
\* changes no row of any other user in users or user_progress.
C8_ResetFrame ==
    [][\A u \in UserIds :
         ResetProgress(u) =>
            /\ \A w \in TokWeeks, d \in TokDays :
                  DOMAIN get_user_progress(progress', u, w, d) = {}
            /\ RowsOf(progress', u) = {}
            /\ DOMAIN users' = DOMAIN users
            /\ u \in DOMAIN users =>
                  /\ users'[u].total_exercises = 0
                  /\ users'[u].total_workouts = 0
                  /\ users'[u].current_week = users[u].current_week
                  /\ users'[u].current_day = users[u].current_day
            /\ \A v \in DOMAIN users \ {u} : users'[v] = users[v]
            /\ \A v \in UserIds \ {u} :
                  RowsOf(progress', v) = RowsOf(progress, v)
      ]_vars

\* a reset has run; the user it left without rows and with zeroed counters
\* keeps a position other than the default, and another user keeps a row
C8_Witness ==
    /\ last.op = "reset"
    /\ \E u \in DOMAIN users, v \in DOMAIN users :
          /\ u # v
          /\ RowsOf(progress, u) = {}
          /\ users[u].total_exercises = 0
          /\ <<users[u].current_week, users[u].current_day>> # <<1, 1>>
          /\ RowsOf(progress, v) # {}
          /\ users[v].total_exercises = 1

\* what the claim calls a missing exercise, read off the catalog itself
NoSuchExercise(w, d, idx) ==
    \/ w \notin DOMAIN full_program
    \/ w \in DOMAIN full_program /\ d \notin DOMAIN full_program[w]
    \/ /\ w \in DOMAIN full_program
       /\ d \in DOMAIN full_program[w]
       /\ (idx < 0 \/ idx >= Len(full_program[w][d]))

\* C9: selecting an exercise whose week, day or index the catalog lacks is
\* answered with an error message, not with a fault, and changes nothing in
\* users, user_progress or the pending weight entries.
C9_MissingExerciseIsError ==
    [][\A u \in UserIds, w \in TokWeeks, d \in TokDays, i \in TokIdx :
         (SelectExercise(u, w, d, i) /\ NoSuchExercise(w, d, i)) =>
            /\ last'.render \in ErrorRenders
            /\ last'.render # "fault"
            /\ UNCHANGED <<users, progress, waiting>>
      ]_vars

\* the error was rendered in a state where a user has a position to lose
C9_Witness ==
    /\ last = Response("exercise", "exercise_not_found")
    /\ \E u \in DOMAIN users : users[u].current_week = 2

\* what the claim calls a non-numeric text, read off the characters: one
\* with a character that is no digit and no separator, or with no digit
NonNumeric(text) ==
    \/ \E i \in 1..Len(text) : text[i] \notin Digits \cup {".", ","}
    \/ \A i \in 1..Len(text) : text[i] \notin Digits

\* C10: a non-numeric text sent while a weight is awaited is answered with
\* the invalid-weight message and leaves the pending entry (the same
\* exercise), every user_progress row and every users row as they were.
C10_InvalidWeightKeepsPending ==
    [][\A u \in UserIds, t \in Texts :
         (SubmitWeight(u, t) /\ NonNumeric(t)) =>
            /\ last'.render = "invalid_weight"
            /\ u \in DOMAIN waiting'
            /\ waiting' = waiting
            /\ progress' = progress
            /\ users' = users
      ]_vars

(***************************************************************************)
(* Claims about timers, under SpecTimer.                                   *)
(***************************************************************************)
LiveTasks(u) == {t \in TaskIds : tasks[t].chat = u /\ tasks[t].pc \in Running}

\* C3: at every instant a user has at most one live timer task (one that can
\* still tick, render or complete), and while a start_timer call for the user
\* is under way, before its session exists, the user has none.
C3_OneLiveTimerPerUser ==
    /\ \A u \in UserIds : Cardinality(LiveTasks(u)) <= 1
    /\ starting # <<>> => LiveTasks(starting[1].chat) = {}

C3_Witness ==
    \E t1 \in TaskIds, t2 \in TaskIds :
        /\ tasks[t1].chat = tasks[t2].chat
        /\ tasks[t1].pc = "cancelled" /\ tasks[t1].ticks # <<>>
        /\ tasks[t2].pc = "editing"

\* C4: once a start_timer call has replaced a task as its user's timer, the
\* replaced task asks for no further tick edit and no completion message.
C4_ReplacedTaskIsSilent ==
    [][\A t \in TaskIds :
          tasks[t].superseded =>
              /\ tasks'[t].ticks = tasks[t].ticks
              /\ tasks'[t].notified = tasks[t].notified]_vars

C4_Witness ==
    \E t1 \in TaskIds, t2 \in TaskIds :
        /\ tasks[t1].chat = tasks[t2].chat
        /\ tasks[t1].superseded /\ tasks[t1].seconds > 0
        /\ ~tasks[t1].notified
        /\ tasks[t2].pc = "done" /\ tasks[t2].ticks # <<>>

Undisturbed(t) == ~tasks[t].superseded /\ tasks[t].failed_at < 0

Shown(t) == [i \in 1..Len(tasks[t].ticks) |-> tasks[t].ticks[i].shown]

EntriesBy(t) == {i \in 1..Len(timer_history) : timer_history[i].by = t}

\* C5 as stated: a timer of N seconds that is never replaced and whose
\* renders all succeed has shown exactly N-1, ..., 1 when it is over.
C5_TicksStopAtOne ==
    \A t \in TaskIds :
        Undisturbed(t) /\ tasks[t].pc = "done" /\ tasks[t].initial >= 1 =>
            Shown(t) = [i \in 1..(tasks[t].initial - 1) |-> tasks[t].initial - i]

\* C5, amended: a timer of N seconds that is never replaced and whose renders
\* all succeed shows N-1, ..., 1, 0 in that order, asks for the completion
\* message only after all N of them, and when it is over has appended exactly
\* one history row, whose duration is N.
C5_TicksDownToZero ==
    \A t \in TaskIds :
        Undisturbed(t) =>
            /\ Len(tasks[t].ticks) <= tasks[t].initial
            /\ \A i \in 1..Len(tasks[t].ticks) :
                  tasks[t].ticks[i].shown = tasks[t].initial - i
            /\ tasks[t].notified => Len(tasks[t].ticks) = tasks[t].initial
            /\ \A i \in EntriesBy(t) :
                  /\ tasks[t].pc = "done"
                  /\ timer_history[i].duration_seconds = tasks[t].initial
            /\ tasks[t].pc = "done" => Cardinality(EntriesBy(t)) = 1

C5_Witness ==
    \E t \in TaskIds :
        /\ Undisturbed(t) /\ tasks[t].pc = "done"
        /\ tasks[t].initial = 3
        /\ Shown(t) = <<2, 1, 0>>
        /\ \E i \in EntriesBy(t) : timer_history[i].duration_seconds = 3

\* C6: a task that a later start_timer cancelled never appends a row to
\* timer_history, wherever in run_timer the cancellation reached it.
C6_CancelledTimerLogsNothing ==
    \A t \in TaskIds : tasks[t].superseded => EntriesBy(t) = {}

C6_Witness ==
    \E t1 \in TaskIds, t2 \in TaskIds :
        /\ tasks[t1].chat = tasks[t2].chat
        /\ tasks[t1].superseded /\ tasks[t1].seconds = 2
        /\ Len(tasks[t1].ticks) = 1
        /\ EntriesBy(t2) # {}

\* C7: a task one of whose tick edits failed with seconds still left asks
\* for no completion message and appends no row to timer_history.
C7_FailedRenderEndsSilently ==
    \A t \in TaskIds :
        tasks[t].failed_at > 0 => ~tasks[t].notified /\ EntriesBy(t) = {}

(***************************************************************************)
(* Claims about weight entry, under SpecWeight.                            *)
(***************************************************************************)
\* what the claims call a valid value, read off the characters: digits with
\* at most one separator, '.' or ',', and at least one digit
Decimal(text) ==
    /\ \A i \in 1..Len(text) : text[i] \in Digits \cup {".", ","}
    /\ Cardinality({i \in 1..Len(text) : text[i] \in {".", ","}}) <= 1
    /\ \E i \in 1..Len(text) : text[i] \in Digits

WeightsOf(pr, u, e) ==
    {pr[i].weight : i \in {j \in 1..Len(pr) :
                              pr[j].user_id = u /\ pr[j].exercise_id = e}}

\* C11: a valid weight sent while an entry for exercise E is pending leaves a
\* row (user, E) holding that weight, clears the pending entry and is
\* answered with E's exercise detail view, not an error and not a fault.
C11_ValidWeightRerendersDetail ==
    [][\A u \in UserIds, t \in Texts :
         (SubmitWeight(u, t) /\ Decimal(t)) =>
            /\ WeightsOf(progress', u, waiting[u].exercise_id)
                  = {float_value(replace_comma(t))}
            /\ u \notin DOMAIN waiting'
            /\ last'.render = "exercise_detail"
      ]_vars

\* C12: a valid weight sent for (user, E) leaves the completed flag of the
\* row (0 for a missing row) and the user's total_exercises as they were.
C12_WeightKeepsCompletion ==
    [][\A u \in UserIds, t \in Texts :
         (SubmitWeight(u, t) /\ Decimal(t)) =>
            /\ Flag(progress', u, waiting[u].exercise_id)
                  = Flag(progress, u, waiting[u].exercise_id)
            /\ users' = users
      ]_vars

\* C14: a text message from a user with no pending weight entry changes
\* nothing: no users row, no user_progress row, no pending entry, no timer.
C14_PlainTextChangesNothing ==
    [][last'.op = "text" =>
         \A u \in UserIds, t \in Texts :
            PlainText(u, t) =>
               /\ UNCHANGED <<users, progress, waiting>>
               /\ UNCHANGED timer_vars
      ]_vars

\* a text was answered while its sender had no users row, another user had
\* an entry pending and a row was stored
C14_Witness ==
    /\ last.op = "text"
    /\ waiting # Empty
    /\ progress # <<>>
    /\ \E u \in UserIds : u \notin DOMAIN users /\ u \notin DOMAIN waiting

\* C15: user_progress never holds two rows for one (user_id, exercise_id),
\* whatever toggles and weight entries were made and with whatever (week, day)
\* they named the exercise.
C15_OneRowPerExercise ==
    \A u \in UserIds, e \in ExerciseIds :
        Cardinality(matching(progress, u, e)) <= 1

\* a row with a weight was toggled under a day other than the one the weight
\* was entered under
C15_Witness ==
    /\ last.op = "toggle"
    /\ \E i \in 1..Len(progress) :
          /\ progress[i].exercise_id = "1-1-1"
          /\ progress[i].day = 2
          /\ progress[i].weight # NULL

\* two texts that differ at most in ',' standing for '.'
SameButSeparator(t1, t2) ==
    /\ Len(t1) = Len(t2)
    /\ \A i \in 1..Len(t1) :
          t1[i] = t2[i] \/ {t1[i], t2[i]} = {",", "."}

\* user_progress after message_handler has handled the text for the entry
AfterSubmit(pr, u, entry, text) ==
    IF parse_weight(text).ok
    THEN save_exercise_weight(pr, u, entry.week, entry.day,
                              entry.exercise_id, parse_weight(text).value)
    ELSE pr

\* C19: a weight written with ',' is stored as the same value as the weight
\* written with '.' in its place ("60,5" as "60.5"): user_progress after the
\* one is what it would be after the other.
C19_CommaAsPoint ==
    [][last'.op = "weight" =>
         \A u \in UserIds, t1 \in Texts, t2 \in Texts :
            (/\ SameButSeparator(t1, t2)
             /\ Decimal(t1)
             /\ SubmitWeight(u, t1)) =>
               /\ progress' = AfterSubmit(progress, u, waiting[u], t2)
               /\ WeightsOf(progress', u, waiting[u].exercise_id) # {NULL}
      ]_vars

\* a weight has been sent and the row holds 60.5
C19_Witness ==
    /\ last.op = "weight"
    /\ \E i \in 1..Len(progress) : progress[i].weight = <<605, 10>>

(***************************************************************************)
(* Claims about the buttons, under SpecButtons.                            *)
(***************************************************************************)
WholeTokens ==
    { <<"timer", "after", "exercise">>, <<"program", "main">>,
      <<"back", "to", "weeks">>, <<"main", "menu">>,
      <<"current", "training">>, <<"help", "main">>, <<"stats", "main">>,
      <<"reset", "confirm">> }

AllInts(data, from) == \A k \in from..Len(data) : is_int(data[k])

\* the tokens of the recognized actions, as the bot writes them on its
\* buttons: a prefix with all its numeric fields, or a whole token
WellFormed(data) ==
    \/ data \in WholeTokens
    \/ Len(data) = 2 /\ data[1] = "week" /\ AllInts(data, 2)
    \/ Len(data) = 3 /\ data[1] = "day" /\ AllInts(data, 2)
    \/ Len(data) = 4 /\ data[1] = "exercise" /\ AllInts(data, 2)
    \/ Len(data) = 5 /\ SubSeq(data, 1, 2) = <<"toggle", "complete">>
                     /\ AllInts(data, 4)
    \/ Len(data) = 6 /\ SubSeq(data, 1, 2) = <<"set", "weight">>
                     /\ AllInts(data, 3)
    \/ Len(data) = 2 /\ data[1] = "timer" /\ isdigit(data[2])
    \/ Len(data) >= 3 /\ SubSeq(data, 1, 2) = <<"timer", "exercise">>
    \/ Len(data) = 4 /\ SubSeq(data, 1, 3) = <<"back", "to", "days">>
                     /\ AllInts(data, 4)
    \/ Len(data) = 5 /\ SubSeq(data, 1, 3) = <<"back", "to", "exercises">>
                     /\ AllInts(data, 4)

\* C13: a button token that is none of the recognized actions (unknown
\* prefix, missing or non-numeric field, unrecognized suffix after timer_ or
\* back_to_) is answered with an error message: never with a fault and never
\* with no answer at all.
C13_MalformedTokenIsError ==
    [][\A u \in UserIds, data \in Tokens :
         (ButtonPress(u, data) /\ ~WellFormed(data)) =>
            last'.render \in ErrorRenders
      ]_vars

\* C16: navigating back, to the week list, to a day list or to an exercise
\* list, writes nothing: users (position, counters) and user_progress are as
\* they were.
C16_BackWritesNothing ==
    [][\A u \in UserIds :
         (last'.op = "back" /\
            (\/ BackToWeeks(u)
             \/ \E w \in TokWeeks : BackToDays(u, w)
             \/ \E w \in TokWeeks, d \in TokDays : BackToExercises(u, w, d)))
         => UNCHANGED <<users, progress>>
      ]_vars

(***************************************************************************)
(* Claims about the day view, under SpecProgress.                          *)
(***************************************************************************)
\* a day the catalog has, read off the catalog itself
DayInCatalog(w, d) ==
    w \in DOMAIN full_program /\ d \in DOMAIN full_program[w]

Position(us, u) == <<us[u].current_week, us[u].current_day>>

C18_BeginWeightEntryFrame ==
    [][\A u \in UserIds, w \in TokWeeks, d \in TokDays, i \in TokIdx :
         (last'.op = "set_weight" /\ BeginWeightEntry(u, w, d, i)) =>
            /\ progress' = progress
            /\ users' = users
            /\ \A v \in DOMAIN waiting \ {u} :
                  v \in DOMAIN waiting' /\ waiting'[v] = waiting[v]
            /\ IF NoSuchExercise(w, d, i)
               THEN /\ waiting' = waiting
                    /\ last'.render \in ErrorRenders
               ELSE /\ DOMAIN waiting' = DOMAIN waiting \cup {u}
                    /\ waiting'[u] =
                          [week |-> w, day |-> d,
                           exercise_id |-> full_program[w][d][i + 1].id]
                    /\ last'.render = "weight_prompt"
      ]_vars

\* the prompt was given for the exercise of day 2 while a completed row and
\* its counter were in the store
C18_Witness ==
    /\ last = Response("set_weight", "weight_prompt")
    /\ \E u \in DOMAIN waiting : waiting[u].exercise_id = "1-2-1"
    /\ \E u \in DOMAIN users :
          users[u].total_exercises = 1 /\ CompletedCount(progress, u) = 1

(***************************************************************************)
(* Claims about the toggle with a caller-supplied (week, day), under       *)
(* SpecWeight                                                              *)
(***************************************************************************)

\* the (week, day) pairs stored on the rows of (u, e)
PlacesOf(pr, u, e) ==
    {<<pr[i].week, pr[i].day>> : i \in matching(pr, u, e)}

\* C20: every toggle_complete_<e>_<w>_<d> flips the completed flag of the
\* (user, e) row (0 for a missing row) and leaves the row at (w, d), whatever
\* (week, day) the row held before; total_exercises goes up by 1 exactly when
\* the flag goes 0 to 1 and down by 1 exactly when it goes 1 to 0.
C20_ToggleFlipsAndMoves ==
    [][last'.op = "toggle" =>
         \A u \in UserIds, e \in ExerciseIds,
            w \in WeightWeeks, d \in TokDays :
            ToggleCompletion(u, e, w, d) =>
               /\ Flag(progress', u, e) = 1 - Flag(progress, u, e)
               /\ PlacesOf(progress', u, e) = {<<w, d>>}
               /\ u \in DOMAIN users =>
                     users'[u].total_exercises - users[u].total_exercises =
                        Flag(progress', u, e) - Flag(progress, u, e)
      ]_vars

(***************************************************************************)
(* Claims about timer sessions and their tasks, under SpecTimer            *)
(***************************************************************************)

\* the session registered for the chat of task t is the one start_timer
\* registered together with t: its message is the one sent for t and the
\* registered task is t
OwnSession(t) ==
    LET chat_id == tasks[t].chat
    IN  /\ chat_id \in DOMAIN user_timers
        /\ chat_id \in DOMAIN active_timers
        /\ user_timers[chat_id].message_id = t
        /\ active_timers[chat_id] = t

\* C21: a task asks for a tick edit only while the session registered for its
\* chat is its own; a task that a later start_timer replaced never edits the
\* message of the newer session, also when both were started with the same
\* number of seconds.
C21_TickEditsOwnSession ==
    [][\A t \in TaskIds :
          Len(tasks'[t].ticks) > Len(tasks[t].ticks) =>
              /\ OwnSession(t)
              /\ ~tasks[t].superseded
              /\ tasks'[t].ticks[Len(tasks'[t].ticks)].message_id = t
      ]_vars

\* a task was replaced in the middle of its countdown by one started with the
\* same number of seconds, and the newer one has edited its message
C21_Witness ==
    \E t1 \in TaskIds, t2 \in TaskIds :
        /\ t1 < t2
        /\ tasks[t1].chat = tasks[t2].chat
        /\ tasks[t1].initial = tasks[t2].initial
        /\ tasks[t1].superseded /\ tasks[t1].seconds > 0
        /\ tasks[t1].ticks # <<>>
        /\ tasks[t2].ticks # <<>>
        /\ OwnSession(t2)

\* neither registry holds an entry for the chat
Cleared(chat_id) ==
    /\ chat_id \notin DOMAIN user_timers
    /\ chat_id \notin DOMAIN active_timers

\* task t has been replaced, or its chat has no session left
ReplacedOrCleared(t) ==
    /\ t \in TaskIds
    /\ tasks[t].superseded \/ Cleared(tasks[t].chat)

\* C22: when the event loop runs every ready task, every timer task that was
\* started and is never replaced is followed by a state in which neither
\* user_timers nor active_timers holds an entry for its chat, whether its
\* countdown ran out, a tick edit failed or the completion message failed.
C22_UnreplacedTimerIsCleared ==
    \A t \in 1..MaxTasks : (t \in TaskIds) ~> ReplacedOrCleared(t)

\* the timer state kept for chat b: its entries in the two registries and
\* its tasks
SessionOf(timers, active, ts, b) ==
    [session |-> IF b \in DOMAIN timers THEN <<timers[b]>> ELSE <<>>,
     task |-> IF b \in DOMAIN active THEN <<active[b]>> ELSE <<>>,
     tasks |-> [t \in {i \in 1..Len(ts) : ts[i].chat = b} |-> ts[t]]]

\* the step leaves the timer state of every chat but a as it was
OthersUntouched(a) ==
    \A b \in UserIds \ {a} :
        SessionOf(user_timers', active_timers', tasks', b) =
            SessionOf(user_timers, active_timers, tasks, b)

\* C23: a start_timer for chat a (with or without a timer to replace), and
\* every step of a task of chat a (tick, failed tick edit, completion, failed
\* completion), leaves every other chat's session, registered task and tasks
\* as they were: what was running for them is still running.
C23_TimersOfOthersUntouched ==
    [][/\ \A u \in UserIds, s \in TimerSeconds :
             StartTimerBegin(u, s) => OthersUntouched(u)
       /\ starting # <<>> /\ (StartTimerSent \/ StartTimerFailed) =>
             OthersUntouched(starting[1].chat)
       /\ \A t \in TaskIds : TaskStep(t) => OthersUntouched(tasks[t].chat)
      ]_vars

\* one chat's timer was replaced and the replacement completed and was
\* cleaned up, while another chat's task is in the middle of its countdown
C23_Witness ==
    \E t1 \in TaskIds, t2 \in TaskIds, t3 \in TaskIds :
        /\ tasks[t1].chat = tasks[t2].chat
        /\ tasks[t3].chat # tasks[t1].chat
        /\ tasks[t1].superseded
        /\ tasks[t2].pc = "done"
        /\ tasks[t1].chat \notin DOMAIN user_timers
        /\ tasks[t3].pc = "sleeping" /\ tasks[t3].ticks # <<>>
        /\ OwnSession(t3)

(***************************************************************************)
(* Claims about the toggle branch on the event loop, under SpecLoop        *)
(***************************************************************************)

\* the handler in flight is about to read the flag (it is suspended at the
\* await before line 711)
AboutToRead == handling # <<>> /\ handling[1].pc = "answer"

\* C24: the read of the flag, the write of the flipped flag and the counter
\* adjustment of a toggle happen in one step of the event loop: the step in
\* which the handler reads is the step in which it writes, what it writes is
\* the toggle of the store as it is at that step, and any step of another
\* handler, of a timer task or of the update queue finds no toggle handler
\* between its read and its writes.  Toggles of one key that were queued
\* together so take effect one entirely after the other.
C24_ToggleReadWriteIsOneStep ==
    [][/\ AboutToRead /\ ToggleResume =>
             LET h == handling[1]
             IN  /\ handling' # <<>> /\ handling'[1].pc = "render"
                 /\ progress' = toggle_progress(progress, h.user,
                                    h.exercise_id, h.week, h.day)
                 /\ users' = toggle_users(users, progress, h.user,
                                    h.exercise_id, h.week, h.day)
       /\ (inbox' # inbox \/ timer_vars' # timer_vars) =>
             (handling # <<>> => toggle_awaits(handling[1].pc))
       /\ ~AboutToRead => UNCHANGED progress
      ]_vars

\* a toggle has written its row while a second toggle of the same key was
\* already queued and a timer task of the same user was in its countdown
C24_Witness ==
    /\ handling # <<>> /\ handling[1].pc = "render"
    /\ inbox # <<>>
    /\ inbox[1].user = handling[1].user
    /\ inbox[1].exercise_id = handling[1].exercise_id
    /\ Flag(progress, handling[1].user, handling[1].exercise_id) = 0
    /\ handling[1].user \in DOMAIN users
    /\ \E t \in TaskIds :
          /\ tasks[t].chat = handling[1].user
          /\ tasks[t].pc = "sleeping" /\ tasks[t].ticks # <<>>

(***************************************************************************)
(* Claims about the users table, under SpecButtons                         *)
(***************************************************************************)

\* C25: in every reachable state every row of user_progress belongs to a user
\* who has a users row: the users row is there before anything is stored for
\* the user, whatever the user's first action was.
C25_RowsBelongToUsers ==
    \A i \in 1..Len(progress) : progress[i].user_id \in DOMAIN users

(***************************************************************************)
(* Claims about the catalog lookup, under SpecButtons                      *)
(***************************************************************************)

\* C26: get_exercise(week, day, index) finds nothing exactly when the catalog
\* has no such week, no such day in the week, or the index is outside
\* 0..len-1 of the day's list (a negative index included); otherwise it
\* returns the exercise at that index of full_program, which no handler
\* changes.  Observed where set_weight_<w>_<d>_<idx>_<set> looks the exercise
\* up and keeps its id.
C26_GetExerciseExact ==
    [][last'.op = "set_weight" =>
         \A u \in UserIds, w \in TokWeeks, d \in TokDays, i \in TokIdx :
            BeginWeightEntry(u, w, d, i) =>
               /\ last'.render = "exercise_not_found" <=>
                     NoSuchExercise(w, d, i)
               /\ ~NoSuchExercise(w, d, i) =>
                     /\ u \in DOMAIN waiting'
                     /\ waiting'[u].exercise_id = full_program[w][d][i + 1].id
      ]_vars

\* the second exercise of a day was found by its index 1, and a later lookup
\* found nothing
C26_Witness ==
    /\ last = Response("set_weight", "exercise_not_found")
    /\ \E u \in DOMAIN waiting : waiting[u].exercise_id = "1-1-2"

(***************************************************************************)
(* Claims about the counter and the stored position, under SpecProgress    *)
(***************************************************************************)

\* C27: total_exercises of every users row is at least 0 in every state that
\* toggles, weight entries and resets reach.
C27_CounterNeverNegative ==
    \A u \in DOMAIN users : users[u].total_exercises >= 0

\* C28: in every reachable state the stored position of every user names a
\* day the catalog has, so that the exercise list of the stored position can
\* be rendered: the position starts at (1, 1) and show_exercise_list writes
\* it only after it has found the day.
C28_PositionInCatalog ==
    \A u \in DOMAIN users :
        /\ HasDay(users[u].current_week, users[u].current_day)
        /\ list_render(users[u].current_week, users[u].current_day)
              = "exercise_list"

\* a user's position was moved to week 2 and the user then asked for a day
\* the catalog lacks
C28_Witness ==
    /\ last = Response("day", "day_not_found")
    /\ \E u \in DOMAIN users :
          users[u].current_week = 2 /\ users[u].current_day = 1

(***************************************************************************)
(* Claims about the rest-timer button, under SpecButtons                   *)
(***************************************************************************)

\* C29: a press of timer_exercise_<name> (here <name> is squat) is dispatched
\* to the timer_exercise_ branch and begins start_timer for the user's chat
\* with 90 seconds and the label <name>.
C29_ExerciseTimerStarts ==
    [][\A u \in UserIds :
         ButtonPress(u, <<"timer", "exercise", "squat">>) =>
            starting' = <<[chat |-> u, seconds |-> 90, name |-> "squat"]>>
      ]_vars

====
